---- MODULE Spec2Model ----
(***************************************************************************)
(* Scour protection installation (ORBIT):                                  *)
(*   src/ORBIT/phases/install/scour_protection_install/standard.py         *)
(*                                                                         *)
(* One vessel cycles between port and site.  At port it tops its rock      *)
(* storage up, at site it drops tons_per_substructure per turbine until    *)
(* no turbine is left.  The processes install_scour_protection,            *)
(* load_material and drop_material are generators: one action of the model *)
(* is the code that runs between two yields.                               *)
(*                                                                         *)
(* The rock storage (vessel.rock_storage) and the port are containers      *)
(* whose code is not part of the two source files; their put/get follow    *)
(* section 4.2 of the specification (a request that does not fit stays     *)
(* pending until it does, first come first served).                        *)
(***************************************************************************)
EXTENDS Integers, Sequences, FiniteSets, TLC

(* ------------------------------ bounds --------------------------------- *)

MaxCapacity == 4        \* rock storage capacities 0..MaxCapacity
MaxTons == 3            \* tons_per_substructure in 1..MaxTons
MaxTurbines == 3        \* num_turbines in 0..MaxTurbines
MaxCount == 6           \* the trip counters saturate here (an undersized vessel cycles forever)
MaxCalls == 3           \* direct calls of load_material / drop_material in one behaviour

(* The two scenarios of the specification, section 8: capacity, per-unit   *)
(* requirement, number of units.                                           *)
Scenarios == { <<1000, 200, 5>>, <<300, 200, 3>> }

Configs ==
    { <<c, u, n>> : c \in 0..MaxCapacity, u \in 1..MaxTons, n \in 0..MaxTurbines }
        \cup Scenarios

VARIABLES
    max_weight,             \* vessel.rock_storage.max_weight: the capacity
    tons_per_substructure,  \* per-unit requirement
    num_turbines,           \* the target count the run started with
    turbines,               \* remaining target count (the local of install_scour_protection)
    level,                  \* vessel.rock_storage.level
    put_queue,              \* pending put requests of the rock storage
    get_queue,              \* pending get requests of the rock storage
    port_level,             \* level of the port's container
    at_port, at_site,       \* vessel location flags
    pc,                     \* where the process is suspended
    err,                    \* the exception that ended the process, or "none"
    op, weight,             \* the last load_material/drop_material call and its argument
    loads, loaded,          \* put calls issued by load_material, and the weight they asked for
    drops, delivered,       \* get calls issued by drop_material, and the weight they asked for
    load_tasks, drop_tasks, \* "Load SP Material" / "Drop SP Material" tasks completed
    site_transits,          \* completed transits port -> site
    turbine_transits,       \* completed transits turbine -> turbine
    port_transits,          \* completed transits site -> port
    calls,                  \* direct calls made so far (bounded by MaxCalls)
    feasible                \* the answer of the constraint evaluator, the same at all times

config == <<max_weight, tons_per_substructure, num_turbines, feasible>>
storage == <<level, put_queue, get_queue>>
flags == <<at_port, at_site>>
loadlog == <<loads, loaded>>
droplog == <<drops, delivered>>
tasklog == <<load_tasks, drop_tasks>>
transitlog == <<site_transits, turbine_transits, port_transits>>

vars == <<config, turbines, storage, port_level, flags, pc, err, op, weight,
          loadlog, droplog, tasklog, transitlog, calls>>

Bump(n) == IF n < MaxCount THEN n + 1 ELSE n

Min(a, b) == IF a <= b THEN a ELSE b

(* --------------------------- the container ----------------------------- *)

\* A pending put is served when it fits, a pending get when enough is
\* present; each queue is served from its head, in order.
RECURSIVE Settle(_, _, _, _)
Settle(lvl, cap, pq, gq) ==
    IF pq # << >> /\ lvl + Head(pq) <= cap
    THEN Settle(lvl + Head(pq), cap, Tail(pq), gq)
    ELSE IF gq # << >> /\ lvl >= Head(gq)
         THEN Settle(lvl - Head(gq), cap, pq, Tail(gq))
         ELSE <<lvl, pq, gq>>

\* put(amount): CapacityExceeded when the amount can never fit.
PutFails(cap, amount) == amount > cap

\* get(amount): InsufficientAmount when the amount can never be present.
GetFails(cap, amount) == amount < 0 \/ amount > cap

ContainerPut(lvl, cap, pq, gq, amount) == Settle(lvl, cap, Append(pq, amount), gq)

ContainerGet(lvl, cap, pq, gq, amount) == Settle(lvl, cap, pq, Append(gq, amount))

available_capacity == max_weight - level

(* ------------------------- load_material ------------------------------- *)

\* the check compares the weight alone with the capacity
LoadExceeds_IgnoresLevel(w) == w > max_weight

LoadExceeds(w) == level + w > max_weight

\* the put asks for the whole capacity instead of the weight
PutAmount_Capacity(w) == max_weight

PutAmount(w) == w

\* load_material up to its yield: the check, then the put (not waited for).
load_material(w) ==
    /\ op' = "load"
    /\ weight' = w
    /\ IF LoadExceeds(w)
       THEN /\ err' = "CargoWeightExceeded"
            /\ pc' = "error"
            /\ UNCHANGED <<storage, loadlog>>
       ELSE IF PutFails(max_weight, PutAmount(w))
       THEN /\ err' = "CapacityExceeded"
            /\ pc' = "error"
            /\ UNCHANGED <<storage, loadlog>>
       ELSE /\ LET s == ContainerPut(level, max_weight, put_queue, get_queue, PutAmount(w))
               IN  level' = s[1] /\ put_queue' = s[2] /\ get_queue' = s[3]
            /\ loads' = Bump(loads)
            /\ loaded' = loaded + w
            /\ pc' = "loading"
            /\ UNCHANGED err
    /\ UNCHANGED <<droplog, tasklog>>

(* ------------------------- drop_material ------------------------------- *)

\* the check compares the weight with the capacity instead of the level
DropShort_AgainstCapacity(w) == max_weight < w

DropShort(w) == level < w

GetAmount(w) == w

\* drop_material up to its yield: the check, then the get (not waited for).
drop_material(w) ==
    /\ op' = "drop"
    /\ weight' = w
    /\ IF DropShort(w)
       THEN /\ err' = "InsufficientAmount"
            /\ pc' = "error"
            /\ UNCHANGED <<storage, droplog>>
       ELSE IF GetFails(max_weight, GetAmount(w))
       THEN /\ err' = "InsufficientAmount"
            /\ pc' = "error"
            /\ UNCHANGED <<storage, droplog>>
       ELSE /\ LET s == ContainerGet(level, max_weight, put_queue, get_queue, GetAmount(w))
               IN  level' = s[1] /\ put_queue' = s[2] /\ get_queue' = s[3]
            /\ drops' = drops + 1
            /\ delivered' = delivered + w
            /\ pc' = "dropping"
            /\ UNCHANGED err
    /\ UNCHANGED <<loadlog, tasklog>>

(* --------------------- install_scour_protection ------------------------ *)

\* the loop runs once more at zero
LoopCond_Inclusive == turbines >= 0

LoopCond == turbines > 0

\* the whole capacity is asked for, not what is left of it
LoadWeight_Capacity == max_weight

\* half of what is left of the capacity is asked for
LoadWeight_Half == available_capacity \div 2

\* the amount to load with its operands swapped
LoadWeight_Swapped == level - max_weight

\* the amount to load capped by what the port's container holds
LoadWeight_PortLimited == Min(available_capacity, port_level)

LoadWeight == available_capacity

EnoughForUnit == level >= tons_per_substructure

DropWeight == tons_per_substructure

\* a strict comparison of the level
ContinueAtSite_Strict(lvl, t) == lvl > tons_per_substructure /\ t > 0

\* the level is not looked at
ContinueAtSite_AnyLevel(lvl, t) == t > 0

\* the remaining turbines are not looked at
ContinueAtSite_LevelOnly(lvl, t) == lvl >= tons_per_substructure

ContinueAtSite(lvl, t) == lvl >= tons_per_substructure /\ t > 0

\* at port: load the material
AtPortLoad ==
    /\ pc = "loop" /\ LoopCond /\ at_port
    /\ load_material(LoadWeight)
    /\ UNCHANGED <<config, turbines, port_level, flags, transitlog, calls>>

\* the port flag is not cleared before the transit
LoadDone_KeepsPort ==
    /\ pc = "loading"
    /\ load_tasks' = Bump(load_tasks)
    /\ pc' = "to_site"
    /\ UNCHANGED <<config, turbines, storage, port_level, flags, err, op, weight,
                   loadlog, droplog, drop_tasks, transitlog, calls>>

\* the load task is over; leave the port
LoadDone ==
    /\ pc = "loading"
    /\ load_tasks' = Bump(load_tasks)
    /\ at_port' = FALSE
    /\ pc' = "to_site"
    /\ UNCHANGED <<config, turbines, storage, port_level, at_site, err, op, weight,
                   loadlog, droplog, drop_tasks, transitlog, calls>>

\* the transit to site is over
ArriveSite ==
    /\ pc = "to_site"
    /\ site_transits' = Bump(site_transits)
    /\ at_site' = TRUE
    /\ pc' = "loop"
    /\ UNCHANGED <<config, turbines, storage, port_level, at_port, err, op, weight,
                   loadlog, droplog, tasklog, turbine_transits, port_transits, calls>>

\* at site with enough material: drop it
AtSiteDrop ==
    /\ pc = "loop" /\ LoopCond /\ ~at_port /\ at_site
    /\ EnoughForUnit
    /\ drop_material(DropWeight)
    /\ UNCHANGED <<config, turbines, port_level, flags, transitlog, calls>>

\* the drop task is over: one turbine less; on to the next turbine or back to port
DropDone ==
    /\ pc = "dropping"
    /\ drop_tasks' = drop_tasks + 1
    /\ turbines' = turbines - 1
    /\ IF ContinueAtSite(level, turbines')
       THEN /\ pc' = "to_turbine"
            /\ UNCHANGED at_site
       ELSE /\ at_site' = FALSE
            /\ pc' = "to_port"
    /\ UNCHANGED <<config, storage, port_level, at_port, err, op, weight,
                   loadlog, droplog, load_tasks, transitlog, calls>>

\* the vessel is taken to have left the site after a transit between turbines
ArriveTurbine_LeavesSite ==
    /\ pc = "to_turbine"
    /\ turbine_transits' = turbine_transits + 1
    /\ at_site' = FALSE
    /\ pc' = "loop"
    /\ UNCHANGED <<config, turbines, storage, port_level, at_port, err, op, weight,
                   loadlog, droplog, tasklog, site_transits, port_transits, calls>>

\* the transit to the next turbine is over
ArriveTurbine ==
    /\ pc = "to_turbine"
    /\ turbine_transits' = turbine_transits + 1
    /\ pc' = "loop"
    /\ UNCHANGED <<config, turbines, storage, port_level, flags, err, op, weight,
                   loadlog, droplog, tasklog, site_transits, port_transits, calls>>

\* the site branch is taken whenever the vessel is not at port
AtSiteReturn_Else ==
    /\ pc = "loop" /\ LoopCond /\ ~at_port
    /\ ~EnoughForUnit
    /\ at_site' = FALSE
    /\ pc' = "to_port"
    /\ UNCHANGED <<config, turbines, storage, port_level, at_port, err, op, weight,
                   loadlog, droplog, tasklog, transitlog, calls>>

\* at site without enough material: back to port
AtSiteReturn ==
    /\ pc = "loop" /\ LoopCond /\ ~at_port /\ at_site
    /\ ~EnoughForUnit
    /\ at_site' = FALSE
    /\ pc' = "to_port"
    /\ UNCHANGED <<config, turbines, storage, port_level, at_port, err, op, weight,
                   loadlog, droplog, tasklog, transitlog, calls>>

\* the port flag is not set after the transit back
ArrivePort_NoFlag ==
    /\ pc = "to_port"
    /\ port_transits' = Bump(port_transits)
    /\ pc' = "loop"
    /\ UNCHANGED <<config, turbines, storage, port_level, flags, err, op, weight,
                   loadlog, droplog, tasklog, site_transits, turbine_transits, calls>>

\* the transit to port is over
ArrivePort ==
    /\ pc = "to_port"
    /\ port_transits' = Bump(port_transits)
    /\ at_port' = TRUE
    /\ pc' = "loop"
    /\ UNCHANGED <<config, turbines, storage, port_level, at_site, err, op, weight,
                   loadlog, droplog, tasklog, site_transits, turbine_transits, calls>>

\* neither at port nor at site
LostAtSea ==
    /\ pc = "loop" /\ LoopCond /\ ~at_port /\ ~at_site
    /\ err' = "LostAtSea"
    /\ pc' = "error"
    /\ UNCHANGED <<config, turbines, storage, port_level, flags, op, weight,
                   loadlog, droplog, tasklog, transitlog, calls>>

\* the loop is left
Complete ==
    /\ pc = "loop" /\ ~LoopCond
    /\ pc' = "done"
    /\ UNCHANGED <<config, turbines, storage, port_level, flags, err, op, weight,
                   loadlog, droplog, tasklog, transitlog, calls>>

(* ------------------------------ set-up --------------------------------- *)

InitLogs ==
    /\ err = "none" /\ op = "none" /\ weight = 0
    /\ loads = 0 /\ loaded = 0 /\ drops = 0 /\ delivered = 0
    /\ load_tasks = 0 /\ drop_tasks = 0
    /\ site_transits = 0 /\ turbine_transits = 0 /\ port_transits = 0
    /\ calls = 0

\* The port's container is created without an initial amount.
initialize_port == port_level = 0

\* The vessel is mobilized at port.
initialize_spi_vessel == at_port = TRUE /\ at_site = FALSE

\* Without a weather profile no constraint ever holds an operation up.
Unconstrained == feasible = TRUE

\* setup_simulation: port, vessel, and the process with its arguments.
Init ==
    /\ Unconstrained
    /\ \E cfg \in Configs :
          /\ max_weight = cfg[1]
          /\ tons_per_substructure = cfg[2]
          /\ num_turbines = cfg[3]
    /\ turbines = num_turbines
    /\ level = 0 /\ put_queue = << >> /\ get_queue = << >>
    /\ initialize_port
    /\ initialize_spi_vessel
    /\ pc = "loop"
    /\ InitLogs

Next ==
    \/ AtPortLoad
    \/ LoadDone
    \/ ArriveSite
    \/ AtSiteDrop
    \/ DropDone
    \/ ArriveTurbine
    \/ AtSiteReturn
    \/ ArrivePort
    \/ Complete

Spec == Init /\ [][Next]_vars

\* The scheduler runs every event that is due: a task or a transit that was
\* started completes, and the process then runs to its next yield.
FairSpec == Spec /\ WF_vars(Next)

(* ------------- install_scour_protection on any vessel state ------------ *)

InitAnyVessel ==
    /\ Unconstrained
    /\ \E cfg \in Configs :
          /\ max_weight = cfg[1]
          /\ tons_per_substructure = cfg[2]
          /\ num_turbines = cfg[3]
    /\ turbines = num_turbines
    /\ level = 0 /\ put_queue = << >> /\ get_queue = << >>
    /\ initialize_port
    /\ at_port \in BOOLEAN /\ at_site \in BOOLEAN
    /\ pc = "loop"
    /\ InitLogs

NextAnyVessel == Next \/ LostAtSea

SpecAnyVessel == InitAnyVessel /\ [][NextAnyVessel]_vars

(* ------------- a run under a constraint evaluator ---------------------- *)

\* A task or transit is suspended until the evaluator reports the operation
\* feasible.
Waiting == pc \in {"loading", "to_site", "dropping", "to_turbine", "to_port"}

\* the primitive goes on whatever the evaluator says
CanProceed_Always == TRUE

CanProceed == Waiting => feasible

\* the scheduler does not look for processes that can never resume
DetectDeadlock_Never ==
    /\ FALSE
    /\ UNCHANGED vars

\* The process waits for an operation that never becomes feasible and no
\* other event is pending: the run fails.
DetectDeadlock ==
    /\ Waiting /\ ~feasible
    /\ err' = "DeadlockError"
    /\ pc' = "error"
    /\ UNCHANGED <<config, turbines, storage, port_level, flags, op, weight,
                   loadlog, droplog, tasklog, transitlog, calls>>

InitConstrained ==
    /\ feasible \in BOOLEAN
    /\ \E cfg \in Configs :
          /\ max_weight = cfg[1]
          /\ tons_per_substructure = cfg[2]
          /\ num_turbines = cfg[3]
    /\ turbines = num_turbines
    /\ level = 0 /\ put_queue = << >> /\ get_queue = << >>
    /\ initialize_port
    /\ initialize_spi_vessel
    /\ pc = "loop"
    /\ InitLogs

Proceed == CanProceed /\ Next

NextConstrained == Proceed \/ DetectDeadlock

\* The scheduler runs the event that is due, or reports that none can be.
SpecConstrained ==
    InitConstrained /\ [][NextConstrained]_vars /\ WF_vars(NextConstrained)

(* ------------ load_material and drop_material called directly ---------- *)

Weights == 0..(MaxCapacity + 1)

InitOps ==
    /\ Unconstrained
    /\ max_weight \in 0..MaxCapacity
    /\ tons_per_substructure = 1
    /\ num_turbines = 0
    /\ turbines = 0
    /\ level \in 0..max_weight /\ put_queue = << >> /\ get_queue = << >>
    /\ initialize_port
    /\ initialize_spi_vessel
    /\ pc = "idle"
    /\ InitLogs

CallLoad ==
    /\ pc = "idle" /\ calls < MaxCalls
    /\ calls' = calls + 1
    /\ \E w \in Weights : load_material(w)
    /\ UNCHANGED <<config, turbines, port_level, flags, transitlog>>

CallLoadDone ==
    /\ pc = "loading"
    /\ load_tasks' = Bump(load_tasks)
    /\ pc' = "idle"
    /\ UNCHANGED <<config, turbines, storage, port_level, flags, err, op, weight,
                   loadlog, droplog, drop_tasks, transitlog, calls>>

CallDrop ==
    /\ pc = "idle" /\ calls < MaxCalls
    /\ calls' = calls + 1
    /\ \E w \in Weights : drop_material(w)
    /\ UNCHANGED <<config, turbines, port_level, flags, transitlog>>

CallDropDone ==
    /\ pc = "dropping"
    /\ drop_tasks' = drop_tasks + 1
    /\ pc' = "idle"
    /\ UNCHANGED <<config, turbines, storage, port_level, flags, err, op, weight,
                   loadlog, droplog, load_tasks, transitlog, calls>>

NextOps == CallLoad \/ CallLoadDone \/ CallDrop \/ CallDropDone

SpecOps == InitOps /\ [][NextOps]_vars

(* ------------------------------- types --------------------------------- *)

TypeOK ==
    /\ <<max_weight, tons_per_substructure, num_turbines>>
            \in Configs \cup { <<c, 1, 0>> : c \in 0..MaxCapacity }
    /\ feasible \in BOOLEAN
    /\ turbines \in Int /\ level \in Int /\ port_level \in Nat
    /\ at_port \in BOOLEAN /\ at_site \in BOOLEAN
    /\ pc \in {"loop", "loading", "to_site", "dropping", "to_turbine", "to_port",
               "done", "error", "idle"}
    /\ err \in {"none", "CargoWeightExceeded", "CapacityExceeded",
                "InsufficientAmount", "LostAtSea", "DeadlockError"}
    /\ op \in {"none", "load", "drop"}

(* ------------------------------ claims --------------------------------- *)

Undersized == max_weight < tons_per_substructure /\ num_turbines > 0

Finished == pc = "done" /\ turbines = 0

\* C1: in every state of a run of install_scour_protection the level of the
\* rock storage is at least 0 and at most the capacity, also right after
\* each put of load_material and each get of drop_material.
C1_CapacityInvariant == 0 <= level /\ level <= max_weight

\* C1 happens: a second load has just topped up a vessel that had dropped material.
C1_Witness ==
    /\ pc = "loading" /\ loads >= 2 /\ drops >= 1
    /\ max_weight > 0 /\ level = max_weight

\* C2: with a finite target count (and the port never limiting a load) the
\* installation process eventually leaves its loop with no turbine left;
\* stated for the vessels that can carry something.
C2_Terminates == (max_weight > 0) ~> Finished

\* A vessel that can carry one unit does finish.
SizedRunTerminates == (max_weight >= tons_per_substructure) ~> Finished

\* C3 as stated: over a run, the material loaded at port equals the material
\* unloaded at site.
C3_WithdrawnEqualsDelivered == pc = "done" => loaded = delivered

\* C3: the material loaded at port equals the material unloaded at site plus
\* the material still on board, in every state of a run.
C3_Conservation == loaded = delivered + level

\* C3 happens: a run is over, material was delivered and some is left on board.
C3_Witness == pc = "done" /\ delivered > 0 /\ level > 0 /\ loads >= 2

\* C4: a run whose capacity is smaller than the per-unit requirement, with
\* at least one turbine to serve, ends in a fatal error instead of cycling
\* between port and site for ever; stated for the vessels that can carry
\* something.
C4_UndersizedFails == (Undersized /\ max_weight > 0) ~> (pc = "error")

InScenario(c, u, n) ==
    max_weight = c /\ tons_per_substructure = u /\ num_turbines = n

\* C6: with capacity 1000, 200 per unit and 5 units the vessel loads once,
\* 1000; it delivers 5 times 200 on one stay at site (one transit to site,
\* four from turbine to turbine) and is not back at port before the fifth
\* delivery; the run ends with 1000 delivered and no turbine left.
C6_OneLoadFiveUnits ==
    InScenario(1000, 200, 5) =>
        /\ loads <= 1 /\ loaded = 1000 * loads
        /\ site_transits <= 1
        /\ delivered = 200 * drops
        /\ (pc = "to_port" \/ port_transits > 0) => drops = 5
        /\ pc \in {"done", "error"} =>
              /\ Finished
              /\ loads = 1 /\ loaded = 1000 /\ load_tasks = 1
              /\ drops = 5 /\ delivered = 1000 /\ drop_tasks = 5
              /\ site_transits = 1 /\ turbine_transits = 4 /\ port_transits = 1

\* C6 happens: the run of the scenario is over.
C6_Witness == InScenario(1000, 200, 5) /\ pc = "done" /\ delivered = 1000

\* C7: with capacity 300, 200 per unit and 3 units the vessel loads 300,
\* delivers one unit, which leaves 100, and goes back to port before the
\* next unit, every time; the run has exactly 3 transits to site and 3 to
\* port and ends with no turbine left.
C7_ThreeRoundTrips ==
    InScenario(300, 200, 3) =>
        /\ turbine_transits = 0
        /\ pc \in {"loading", "to_site"} => level = 300
        /\ (drops >= 1 /\ loads = 1) => loaded = 300
        /\ (pc = "to_port" \/ (pc = "loop" /\ at_port /\ loads > 0)) =>
              /\ level = 100
              /\ drops = loads
        /\ pc \in {"done", "error"} =>
              /\ Finished
              /\ site_transits = 3 /\ port_transits = 3
              /\ loads = 3 /\ drops = 3 /\ delivered = 600

\* C7 happens: the run of the scenario is over after its third return to port.
C7_Witness == InScenario(300, 200, 3) /\ pc = "done" /\ port_transits = 3

\* C8: load_material called with a weight that does not fit (level + weight
\* > max_weight) raises CargoWeightExceeded at once: the level is unchanged,
\* no put is issued or left pending, no load task is run, and the process
\* is over.
C8_LoadRejected ==
    /\ [][(pc = "idle" /\ op' = "load" /\ pc' # "idle"
              /\ level + weight' > max_weight)
            => /\ pc' = "error" /\ err' = "CargoWeightExceeded"
               /\ UNCHANGED <<level, put_queue, get_queue, loads, loaded,
                              load_tasks, drop_tasks>>]_vars
    /\ [][pc # "error"]_vars

\* C8 happens: a load that fits the capacity but not the room left was rejected.
C8_Witness ==
    /\ pc = "error" /\ err = "CargoWeightExceeded" /\ op = "load"
    /\ weight <= max_weight /\ level + weight > max_weight

\* C9: drop_material called with a weight above the level raises
\* InsufficientAmount at once: the level is unchanged, no get is issued or
\* left pending, no drop task is run, and the process is over.
C9_DropRejected ==
    /\ [][(pc = "idle" /\ op' = "drop" /\ pc' # "idle" /\ weight' > level)
            => /\ pc' = "error" /\ err' = "InsufficientAmount"
               /\ UNCHANGED <<level, put_queue, get_queue, drops, delivered,
                              load_tasks, drop_tasks>>]_vars
    /\ [][pc # "error"]_vars

\* C9 happens: a drop of no more than the capacity, but more than the level,
\* was rejected.
C9_Witness ==
    /\ pc = "error" /\ err = "InsufficientAmount" /\ op = "drop"
    /\ weight <= max_weight /\ weight > level

\* The target count changes only by one decrement that follows one unload
\* of the per-unit amount, and never gets below zero.
DecrementsByUnit ==
    turbines' # turbines =>
        /\ turbines' = turbines - 1 /\ turbines' >= 0
        /\ pc = "dropping" /\ op = "drop" /\ weight = tons_per_substructure
        /\ drops = num_turbines - turbines'
        /\ delivered = tons_per_substructure * drops

\* C10 as stated: the target count only decrements, by one, after one unload
\* of the per-unit amount, and once it is zero no load, unload or transit
\* happens any more.
C10_NothingAfterZero ==
    [][/\ DecrementsByUnit
       /\ turbines = 0 =>
            UNCHANGED <<storage, loadlog, droplog, tasklog, transitlog>>]_vars

\* C10: the target count only decrements, by one, after one unload of the
\* per-unit amount, and is never negative; once it is zero no load and no
\* unload happens any more, and the only transit is the return to port that
\* the branch of the last unit has started, after which the loop is left.
C10_TargetCount ==
    [][/\ DecrementsByUnit
       /\ turbines = 0 =>
            /\ UNCHANGED <<storage, loadlog, droplog, tasklog,
                           site_transits, turbine_transits>>
            /\ \/ pc = "to_port" /\ pc' = "loop" /\ at_port'
                  /\ port_transits' = port_transits + 1
               \/ pc = "loop" /\ pc' = "done" /\ UNCHANGED port_transits]_vars

\* C10 happens: a run with turbines to serve is over, the vessel back at port.
C10_Witness ==
    /\ Finished /\ num_turbines > 1 /\ drops = num_turbines
    /\ port_transits >= 1 /\ at_port

InTransit == pc \in {"to_site", "to_port"}

\* C11: at_port and at_site are never both true; whenever the loop takes a
\* decision exactly one of them is true; both are false exactly while a
\* transit between port and site is under way.
C11_ExclusiveFlags ==
    /\ ~(at_port /\ at_site)
    /\ pc = "loop" => (at_port # at_site)
    /\ (~at_port /\ ~at_site) <=> InTransit

\* C11 happens: the vessel has been at site, is at port again and the loop
\* decides once more.
C11_Witness ==
    /\ pc = "loop" /\ turbines > 0 /\ at_port /\ ~at_site
    /\ site_transits >= 1 /\ port_transits >= 1 /\ drops >= 1

\* C12: a vessel that is neither at port nor at site when the loop needs a
\* decision (turbines > 0) ends the process with the fatal error; no load,
\* unload or transit is issued, level and target count stay as they are.
C12_LostVesselStops ==
    /\ [][(pc = "loop" /\ turbines > 0 /\ ~at_port /\ ~at_site)
            => /\ pc' = "error" /\ err' = "LostAtSea"
               /\ UNCHANGED <<turbines, storage, flags, op, weight,
                              loadlog, droplog, tasklog, transitlog>>]_vars
    /\ [][pc # "error"]_vars

\* C12 happens: the process has ended lost at sea with turbines left.
C12_Witness ==
    /\ pc = "error" /\ err = "LostAtSea" /\ turbines > 0
    /\ ~at_port /\ ~at_site /\ level = 0 /\ loads = 0

\* C13: with an evaluator that always reports infeasible, a run with
\* turbines to serve does not stay suspended for ever: it ends with
\* DeadlockError, and no task or transit has completed.
C13_InfeasibleFails ==
    /\ (~feasible /\ num_turbines > 0) ~> (pc = "error" /\ err = "DeadlockError")
    /\ [](~feasible =>
            /\ load_tasks = 0 /\ drop_tasks = 0
            /\ site_transits = 0 /\ turbine_transits = 0 /\ port_transits = 0)
    /\ [](feasible => err # "DeadlockError")

\* C13 happens: the run has failed while its first load task was held up.
C13_Witness ==
    /\ ~feasible /\ pc = "error" /\ err = "DeadlockError"
    /\ op = "load" /\ load_tasks = 0 /\ turbines > 0

\* C15: at site with at least the per-unit amount on board the process
\* unloads exactly that amount and, the drop task over, decrements the target
\* count; it then transits to the next turbine and stays at site if and
\* only if the level is still at least the per-unit amount and turbines are
\* left; otherwise, also after the last unit with material left over, it
\* transits back to port and is then at port.
C15_UnloadThenStayOrReturn ==
    /\ [][(pc = "loop" /\ turbines > 0 /\ ~at_port /\ at_site
              /\ level >= tons_per_substructure)
            => /\ pc' = "dropping"
               /\ level' = level - tons_per_substructure
               /\ delivered' = delivered + tons_per_substructure
               /\ drops' = drops + 1
               /\ UNCHANGED <<turbines, flags>>]_vars
    /\ [][pc = "dropping"
            => /\ turbines' = turbines - 1
               /\ level' = level
               /\ IF level >= tons_per_substructure /\ turbines - 1 > 0
                  THEN pc' = "to_turbine" /\ at_site' /\ ~at_port'
                  ELSE pc' = "to_port" /\ ~at_site' /\ ~at_port']_vars
    /\ [][pc = "to_turbine" => pc' = "loop" /\ at_site' /\ ~at_port']_vars
    /\ [][pc = "to_port" => pc' = "loop" /\ at_port' /\ ~at_site']_vars

\* C15 happens: the run is over at port with at least one more unit on
\* board, after the vessel had stayed at site between two turbines.
C15_Witness ==
    /\ Finished /\ at_port /\ ~at_site
    /\ level >= tons_per_substructure /\ turbine_transits >= 1

\* C16: a step that ends a task or a transit leaves the level of the
\* storage alone; the target count changes only in the statement after the
\* drop task; at_port changes only when the process leaves the port after
\* the load or arrives there, at_site only when it arrives at site or
\* leaves it for the port; both flags are as they were across a transit
\* between turbines.
C16_PrimitivesFrame ==
    /\ [][Waiting => UNCHANGED <<storage, port_level, loadlog, droplog>>]_vars
    /\ [][turbines' # turbines => pc = "dropping"]_vars
    /\ [][at_port' # at_port
            => \/ pc = "loading" /\ pc' = "to_site" /\ ~at_port'
               \/ pc = "to_port" /\ pc' = "loop" /\ at_port']_vars
    /\ [][at_site' # at_site
            => \/ pc = "to_site" /\ pc' = "loop" /\ at_site'
               \/ pc \in {"dropping", "loop"} /\ pc' = "to_port" /\ ~at_site']_vars
    /\ [][(pc = "to_turbine" \/ pc' = "to_turbine") => UNCHANGED flags]_vars

\* C16 happens: a transit between turbines is over and the vessel is at site.
C16_Witness ==
    /\ pc = "loop" /\ turbine_transits >= 1 /\ at_site /\ ~at_port
    /\ turbines > 0 /\ level >= tons_per_substructure

\* ceil(n / d) for d > 0
CeilDiv(n, d) == (n + d - 1) \div d

\* C17: with a capacity of at least the per-unit requirement the vessel
\* never goes back to port without unloading: at every decision at site it
\* has a unit on board, so the return-without-unloading branch is taken only
\* by a vessel whose capacity is below the per-unit requirement.
C17_NoEmptyReturnWhenSized ==
    /\ [][(pc = "loop" /\ pc' = "to_port")
            => max_weight < tons_per_substructure]_vars
    /\ [][(pc = "to_site" /\ max_weight >= tons_per_substructure)
            => level' >= tons_per_substructure /\ level' = max_weight]_vars
    /\ []((pc = "loop" /\ at_site /\ turbines > 0
              /\ max_weight >= tons_per_substructure)
            => level >= tons_per_substructure)

\* C17 happens: a vessel whose capacity is no multiple of the per-unit
\* amount unloads after its second arrival at site from port.
C17_Witness ==
    /\ pc = "dropping" /\ site_transits >= 2
    /\ max_weight >= tons_per_substructure
    /\ level > 0 /\ level < tons_per_substructure

\* C18: from at_port = True, at_site = False the loop never finds the
\* vessel neither at port nor at site: the error branch is not reachable,
\* whatever the capacity, the per-unit requirement and the target count.
C18_NeverLostAtSea ==
    /\ ~(pc = "loop" /\ turbines > 0 /\ ~at_port /\ ~at_site)
    /\ ~ENABLED LostAtSea
    /\ err # "LostAtSea"

\* C18 happens: the loop decides at port after a round trip and at site
\* after a transit from port, with turbines left.
C18_Witness ==
    /\ pc = "loop" /\ turbines > 0 /\ at_port
    /\ port_transits >= 2 /\ site_transits >= 2

\* C19: right after each load the level is the capacity; a run with
\* capacity C >= per-unit amount u and N > 0 turbines makes exactly
\* ceil(N / floor(C / u)) loads, as many transits to site and as many
\* transits back to port; every run that ends, ends at port.
C19_FullLoadsAndTripCount ==
    /\ pc = "loading" => level = max_weight
    /\ pc = "done" => (at_port /\ ~at_site)
    /\ (pc \in {"done", "error"} /\ num_turbines > 0
            /\ max_weight >= tons_per_substructure)
         => /\ Finished
            /\ loads = CeilDiv(num_turbines, max_weight \div tons_per_substructure)
            /\ site_transits = loads
            /\ port_transits = loads

\* C19 happens: a run that needed more than one load, carrying more than one
\* unit each time, is over.
C19_Witness ==
    /\ Finished /\ loads >= 2 /\ turbine_transits >= 1
    /\ loads < num_turbines /\ at_port

\* C20: in a run of install_scour_protection neither load_material nor
\* drop_material raises: each load asks for the available capacity, so level
\* + weight is the capacity, and each drop is made with the per-unit amount
\* on board.
C20_NoPreconditionError ==
    /\ err = "none" /\ pc # "error"
    /\ (pc = "loading" /\ op = "load") => level = max_weight
    /\ (pc = "dropping" /\ op = "drop") =>
          (weight = tons_per_substructure /\ level >= 0)
    /\ put_queue = << >> /\ get_queue = << >>

\* C20 happens: a load onto a vessel with material left on board and a drop
\* have both gone through.
C20_Witness ==
    /\ pc = "dropping" /\ loads >= 2 /\ drops >= 2 /\ err = "none"
    /\ loaded > max_weight

====
